---- MODULE Spec2Model ----
(***************************************************************************)
(* Model of src/src/system/input_stream.rs: the InputStream trait and its  *)
(* two backends, MemoryInputStream and FileInputStream; of the arithmetic  *)
(* on Time in src/src/system/time.rs; and of Mutex and Lock in             *)
(* src/src/system/mutex.rs.                                                *)
(*                                                                         *)
(* i64 is modelled as a two's-complement integer of IntBits bits, so that  *)
(* every i64 argument (the extremes included) can be enumerated and the    *)
(* overflow of offset + size in read happens inside the model.             *)
(***************************************************************************)
EXTENDS Integers, Sequences, FiniteSets, TLC

\* ------------------------------------------------------------------ bounds
\* width of the modelled i64
IntBits == 4
\* number of distinct caller buffers of each length
NumBufs == 2

\* number of files that exist on disk
NumFiles == 2

\* Time values range over -MaxTime..MaxTime microseconds
MaxTime == 3

\* number of threads using the mutex
NumThreads == 2
\* how many times Lock::new, and how many times Lock::clone, may be called
MaxCalls == 3

I64_MAX == 2^(IntBits - 1) - 1
I64_MIN == -(2^(IntBits - 1))
I64 == I64_MIN..I64_MAX
\* a caller's buffer is an allocation: its length stays below a quarter of
\* the address range (on 64-bit targets, far below 2^62 bytes)
MaxLen == 2^(IntBits - 2) - 1

InI64(x) == I64_MIN <= x /\ x <= I64_MAX
\* two's-complement wrap-around of an arithmetic result (release builds)
Wrap(x) == ((x - I64_MIN) % 2^IntBits) + I64_MIN

Min(a, b) == IF a <= b THEN a ELSE b

\* ------------------------------------------------------- caller's buffers
\* A pointer is (id, len); id 0 is the null pointer.
NULL == [id |-> 0, len |-> 0]
Buffers == [id : 1..NumBufs, len : 0..MaxLen]
\* the byte stored at index i (0-based) of buffer p
ByteAt(p, i) == (p.id * 2^IntBits + i) % 256
\* what memory outside a buffer may hold
GarbageBytes == {0, 255}
BufferBytes(p) == [i \in 1..p.len |-> ByteAt(p, i - 1)]

VARIABLES
    data,      \* MemoryInputStream.data   (a pointer, NULL when unopened)
    size,      \* MemoryInputStream.size
    offset,    \* MemoryInputStream.offset
    build,     \* "debug" (overflow checks: arithmetic overflow panics) or "release" (wraps)
    halt,      \* "none", or how the process died: "panic" / "fault"
    last,      \* the last call on the memory stream, its result and the state before it
    rt,        \* the round-trip program over a memory stream
    file,      \* FileInputStream.file  (Option<File>)
    flast,     \* the last call on the file stream and its result
    fds,       \* the operating system's count of open file handles the stream acquired
    frt,       \* the round-trip program over a file stream
    tm,        \* the last operation on Time values, its operands and its result
    mx         \* one Mutex, the Lock values alive on it, and the calls made on it

vars == <<data, size, offset, build, halt, last, rt, file, flast, fds, frt, tm, mx>>

\* ------------------------------------------------------ MemoryInputStream
\* the stream as a value
Stream(d, s, o) == [data |-> d, size |-> s, offset |-> o]
Cur == Stream(data, size, offset)

\* impl Default for MemoryInputStream
MemoryInputStream_default == Stream(NULL, 0, 0)

\* MemoryInputStream::open
MemoryInputStream_open(s, buf) == Stream(buf, buf.len, 0)

\* An outcome of a call: the value returned, the stream afterwards, the
\* source indices copied from (relative to data), the bytes delivered, and
\* whether the process survived.
Outcome(ret, s, src, out, h) ==
    [ret |-> ret, s |-> s, src |-> src, out |-> out, halt |-> h]
Died(s, h) == Outcome(0, s, <<>>, <<>>, h)

\* the source range of copy_nonoverlapping(data.add(offset), dst, count)
SrcRange(s, count) == [i \in 1..count |-> s.offset + i - 1]
InBounds(s, idx) == 0 <= idx /\ idx < s.data.len

\* `self.offset += count`, after the copy
Advance(s, count, b, src, out) ==
    IF b = "debug" /\ ~InI64(s.offset + count)
    THEN Died(s, "panic")
    ELSE Outcome(count, [s EXCEPT !.offset = Wrap(s.offset + count)], src, out, "none")

\* the `if count > 0 { copy; offset += count }` block
CopyOut(s, count, b) ==
    LET src == SrcRange(s, count) IN
    IF \A i \in 1..count : InBounds(s, src[i])
    THEN {Advance(s, count, b, src, [i \in 1..count |-> ByteAt(s.data, src[i])])}
    ELSE \* a read outside the buffer is undefined behaviour: the process
         \* faults, or goes on with whatever the memory held
         {Outcome(0, s, src, <<>>, "fault")} \cup
         {Advance(s, count, b, src,
                  [i \in 1..count |-> IF InBounds(s, src[i])
                                      THEN ByteAt(s.data, src[i]) ELSE g])
            : g \in GarbageBytes}

\* read that hands out the requested count without clamping it to what is left
ReadCount_unclamped(s, n, end_position) == n

\* the clamped count of read: `if end_position <= self.size {size} else {self.size - self.offset}`
ReadCount(s, n, end_position) ==
    IF end_position <= s.size THEN n ELSE s.size - s.offset

\* MemoryInputStream::read: the set of outcomes of read(_, n) on s in build b
MemoryInputStream_read(s, n, b) ==
    IF s.data = NULL THEN {Outcome(-1, s, <<>>, <<>>, "none")}
    ELSE IF b = "debug" /\ ~InI64(s.offset + n) THEN {Died(s, "panic")}
    ELSE LET end_position == Wrap(s.offset + n)
             raw == ReadCount(s, n, end_position)
         IN IF b = "debug" /\ ~InI64(raw) THEN {Died(s, "panic")}
            ELSE LET count == Wrap(raw) IN
                 IF count > 0 THEN CopyOut(s, count, b)
                 ELSE {Outcome(count, s, <<>>, <<>>, "none")}

\* seek that forgets to clamp to the size
SeekTarget_unclamped(s, position) == position

\* the new offset of seek: `if position < self.size {position} else {self.size}`
SeekTarget(s, position) ==
    IF position < s.size THEN position ELSE s.size

\* seek that lacks the `if self.data.is_null() { return -1; }` guard
MemoryInputStream_seek_unguarded(s, position) ==
    LET o == SeekTarget(s, position) IN
    Outcome(o, [s EXCEPT !.offset = o], <<>>, <<>>, "none")

\* MemoryInputStream::seek
MemoryInputStream_seek(s, position) ==
    IF s.data = NULL THEN Outcome(-1, s, <<>>, <<>>, "none")
    ELSE LET o == SeekTarget(s, position) IN
         Outcome(o, [s EXCEPT !.offset = o], <<>>, <<>>, "none")

\* MemoryInputStream::tell
MemoryInputStream_tell(s) ==
    IF s.data = NULL THEN 1 ELSE s.offset

\* MemoryInputStream::size
MemoryInputStream_size(s) ==
    IF s.data = NULL THEN -1 ELSE s.size

\* ---- the calls as actions
Call(op, arg, buf, pre, oc) ==
    [op |-> op, arg |-> arg, buf |-> buf, pre |-> pre,
     ret |-> oc.ret, src |-> oc.src, out |-> oc.out]

Apply(op, arg, buf, oc) ==
    /\ data'   = oc.s.data
    /\ size'   = oc.s.size
    /\ offset' = oc.s.offset
    /\ halt'   = oc.halt
    /\ last'   = Call(op, arg, buf, Cur, oc)
    /\ UNCHANGED <<build, rt, file, flast, fds, frt, tm, mx>>

\* the counts and positions a caller passes to the memory stream: the ones
\* around the buffers' lengths, and both ends of i64 with their neighbours
MemArgs == ((-(MaxLen + 1))..(MaxLen + 1))
             \cup {I64_MIN, I64_MIN + 1, I64_MAX - 2, I64_MAX - 1, I64_MAX}

Open ==
    /\ halt = "none"
    /\ \E buf \in Buffers :
          Apply("open", 0, buf,
                Outcome(0, MemoryInputStream_open(Cur, buf), <<>>, <<>>, "none"))

Read ==
    /\ halt = "none"
    /\ \E n \in MemArgs : \E oc \in MemoryInputStream_read(Cur, n, build) :
          Apply("read", n, NULL, oc)

Seek ==
    /\ halt = "none"
    /\ \E position \in MemArgs :
          Apply("seek", position, NULL, MemoryInputStream_seek(Cur, position))

Tell ==
    /\ halt = "none"
    /\ Apply("tell", 0, NULL,
             Outcome(MemoryInputStream_tell(Cur), Cur, <<>>, <<>>, "none"))

Size ==
    /\ halt = "none"
    /\ Apply("size", 0, NULL,
             Outcome(MemoryInputStream_size(Cur), Cur, <<>>, <<>>, "none"))

NoCall == Call("new", 0, NULL, MemoryInputStream_default,
               Outcome(0, MemoryInputStream_default, <<>>, <<>>, "none"))

\* ------------------------------------------- the round-trip program
\* The module's MemoryInputStream example (open, then read), run for every
\* buffer B of length L >= 1 and every chunk size k in 1..L: read(k) until L
\* bytes were returned, then tell(), then one more read.
RtIdle == [pc |-> "idle", buf |-> NULL, k |-> 0, s |-> MemoryInputStream_default,
           acc |-> <<>>, sum |-> 0, calls |-> 0, told |-> 0, extra |-> 0, extraN |-> 0]

RtStep(r) == rt' = r /\ UNCHANGED <<data, size, offset, build, last, file, flast, fds, frt, tm, mx>>

RtOpen ==
    /\ halt = "none" /\ rt.pc = "idle"
    /\ \E buf \in Buffers : \E k \in 1..buf.len :
          RtStep([rt EXCEPT !.pc = "reading", !.buf = buf, !.k = k,
                            !.s = MemoryInputStream_open(rt.s, buf)])
    /\ UNCHANGED halt

RtRead ==
    /\ halt = "none" /\ rt.pc = "reading" /\ rt.sum < rt.buf.len
    /\ \E oc \in MemoryInputStream_read(rt.s, rt.k, build) :
          /\ RtStep([rt EXCEPT !.s = oc.s, !.acc = rt.acc \o oc.out,
                               !.sum = rt.sum + oc.ret, !.calls = rt.calls + 1])
          /\ halt' = oc.halt

RtTell ==
    /\ halt = "none" /\ rt.pc = "reading" /\ rt.sum >= rt.buf.len
    /\ RtStep([rt EXCEPT !.pc = "told", !.told = MemoryInputStream_tell(rt.s)])
    /\ UNCHANGED halt

RtReadMore ==
    /\ halt = "none" /\ rt.pc = "told"
    /\ \E n \in 1..rt.buf.len : \E oc \in MemoryInputStream_read(rt.s, n, build) :
          /\ RtStep([rt EXCEPT !.pc = "done", !.s = oc.s, !.acc = rt.acc \o oc.out,
                               !.extra = oc.ret, !.extraN = n])
          /\ halt' = oc.halt

NextRoundTrip == RtOpen \/ RtRead \/ RtTell \/ RtReadMore

\* -------------------------------------------------------- FileInputStream
\* The disk: paths 1..NumFiles exist, path p holding p + 1 bytes; path 0
\* does not exist.
Paths == 0..NumFiles
Exists(path) == path >= 1
FileLen(path) == path + 1
FileByteAt(path, i) == (path * 2^IntBits + i) % 256

\* Option<File>: None, or a handle on `path` with its cursor at `pos`
NoFile == [open |-> FALSE, path |-> 0, pos |-> 0]
Handle(path, pos) == [open |-> TRUE, path |-> path, pos |-> pos]

\* `size as usize` of an i64
AsUsize(n) == IF n < 0 THEN n + 2^IntBits ELSE n

FOutcome(ret, f, out, h) == [ret |-> ret, f |-> f, out |-> out, halt |-> h]

\* open that keeps the handle it held when the new open fails
FileInputStream_open_keeps(f, path, ok) ==
    IF Exists(path) /\ ok
    THEN FOutcome(TRUE, Handle(path, 0), <<>>, "none")
    ELSE FOutcome(f.open, f, <<>>, "none")

\* FileInputStream::open; ok: the operating system grants the open
FileInputStream_open(f, path, ok) ==
    IF Exists(path) /\ ok
    THEN FOutcome(TRUE, Handle(path, 0), <<>>, "none")
    ELSE FOutcome(FALSE, NoFile, <<>>, "none")

\* `self.file = None`: dropping a held File closes its handle
Release(f, n) == IF f.open THEN n - 1 ELSE n

\* open that acquires the new handle before it lets go of the old one
OpenHandles_late_release(f, path, ok, n) ==
    LET acquired == IF Exists(path) /\ ok THEN n + 1 ELSE n IN
    <<acquired, Release(f, acquired)>>

\* FileInputStream::open, the count of open handles after each statement:
\* `if self.file.is_some() { self.file = None }`, then `File::open(..).ok()`
OpenHandles(f, path, ok, n) ==
    LET released == Release(f, n) IN
    <<released, IF Exists(path) /\ ok THEN released + 1 ELSE released>>

\* impl Drop for FileInputStream
FileInputStream_drop(f) == NoFile

\* impl Drop for FileInputStream, the count of open handles afterwards
DropHandles(f, n) == <<Release(f, n)>>

Max(a, b) == IF a >= b THEN a ELSE b
\* the largest count in a trace of counts
Peak(trace) == IF Len(trace) = 2 THEN Max(trace[1], trace[2]) ELSE trace[1]

\* the bytes left between the cursor and the end of the file
Remaining(f) == IF f.pos < FileLen(f.path) THEN FileLen(f.path) - f.pos ELSE 0

\* read that delivers the bytes but leaves the cursor where it was
ReadInto_stale(f, len) ==
    LET most == Min(len, Remaining(f)) IN
    {FOutcome(0, f, <<>>, "none")} \cup
    {FOutcome(c, f, [i \in 1..c |-> FileByteAt(f.path, f.pos + i - 1)], "none")
        : c \in (IF most = 0 THEN {0} ELSE 1..most)}

\* read that passes an I/O error on as -1 instead of `unwrap_or(0)`
ReadInto_errneg(f, len) ==
    LET most == Min(len, Remaining(f)) IN
    {FOutcome(-1, f, <<>>, "none")} \cup
    {FOutcome(c, [f EXCEPT !.pos = f.pos + c],
              [i \in 1..c |-> FileByteAt(f.path, f.pos + i - 1)], "none")
        : c \in (IF most = 0 THEN {0} ELSE 1..most)}

\* f.read(buffer).unwrap_or(0) with a buffer of len bytes: an error gives
\* 0, otherwise at least one and at most min(len, remaining) bytes arrive
\* (none when len = 0 or at end-of-file)
ReadInto(f, len) ==
    LET most == Min(len, Remaining(f)) IN
    {FOutcome(0, f, <<>>, "none")} \cup
    {FOutcome(c, [f EXCEPT !.pos = f.pos + c],
              [i \in 1..c |-> FileByteAt(f.path, f.pos + i - 1)], "none")
        : c \in (IF most = 0 THEN {0} ELSE 1..most)}

\* read that reports 0 bytes, as at end-of-file, when no handle is held
FileInputStream_read_nohandle0(f, n) ==
    IF ~f.open THEN {FOutcome(0, f, <<>>, "none")}
    ELSE IF n < 0
         THEN {FOutcome(0, f, <<>>, "fault")} \cup ReadInto(f, AsUsize(n))
         ELSE ReadInto(f, n)

\* FileInputStream::read
FileInputStream_read(f, n) ==
    IF ~f.open THEN {FOutcome(-1, f, <<>>, "none")}
    ELSE IF n < 0
         THEN \* slice::from_raw_parts_mut with a length above isize::MAX is
              \* undefined behaviour: a fault, or a read into the huge slice
              {FOutcome(0, f, <<>>, "fault")} \cup ReadInto(f, AsUsize(n))
         ELSE ReadInto(f, n)

\* FileInputStream::tell; ok: stream_position() succeeds
FileInputStream_tell(f, ok) ==
    IF f.open THEN (IF ok THEN f.pos ELSE -1) ELSE -1

\* FileInputStream::seek; okSeek: the seek succeeds, okTell: the tell after it.
\* SeekFrom::Start(position as u64) of a negative position is rejected by
\* the operating system.
FileInputStream_seek(f, position, okSeek, okTell) ==
    IF f.open
    THEN IF ~okSeek \/ position < 0
         THEN FOutcome(-1, f, <<>>, "none")
         ELSE LET g == [f EXCEPT !.pos = position] IN
              FOutcome(FileInputStream_tell(g, okTell), g, <<>>, "none")
    ELSE FOutcome(-1, f, <<>>, "none")

\* size that leaves the cursor at the end of the file
FileInputStream_size_norestore(f, io) ==
    LET current_pos == FileInputStream_tell(f, io[1]) IN
    IF f.open /\ ~io[2] THEN FOutcome(-1, f, <<>>, "none")
    ELSE LET g  == IF f.open THEN [f EXCEPT !.pos = FileLen(f.path)] ELSE f
             sz == FileInputStream_tell(g, io[3])
         IN FOutcome(sz, g, <<>>, "none")

\* FileInputStream::size; io[1]: the first tell, io[2]: the seek to the
\* end, io[3]: the second tell, io[4], io[5]: the seek back and its tell
FileInputStream_size(f, io) ==
    LET current_pos == FileInputStream_tell(f, io[1]) IN
    IF f.open /\ ~io[2] THEN FOutcome(-1, f, <<>>, "none")
    ELSE LET g  == IF f.open THEN [f EXCEPT !.pos = FileLen(f.path)] ELSE f
             sz == FileInputStream_tell(g, io[3])
             back == FileInputStream_seek(g, current_pos, io[4], io[5])
         IN FOutcome(sz, back.f, <<>>, "none")

\* the counts and positions a caller passes to the file stream: the ones
\* around the files' lengths, and the two ends of i64
FileArgs == ((-2)..(FileLen(NumFiles) + 2)) \cup {I64_MIN, I64_MAX}

\* only a step that runs can fail: in seek, the tell runs after a seek
\* that succeeded
SeekSteps(f, position, okSeek, okTell) ==
    ~okTell => (f.open /\ okSeek /\ position >= 0)

\* in size: both tells and the seek to the end run when a handle is held,
\* the second tell and the seek back after the seek to the end succeeded,
\* the tell of the seek back after that seek succeeded
SizeSteps(f, io) ==
    /\ ~f.open => \A i \in 1..5 : io[i]
    /\ ~io[2] => (io[3] /\ io[4] /\ io[5])
    /\ ~io[5] => (io[1] /\ io[4])

NoFCall == [op |-> "new", arg |-> 0, ret |-> 0, pre |-> NoFile, out |-> <<>>,
            io |-> <<>>, prev |-> "new", peak |-> 0]

\* a call and its effect; trace: the counts of open handles during it
FApplyH(op, arg, ret, oc, io, trace) ==
    /\ flast.op # "drop"
    /\ file'  = oc.f
    /\ halt'  = oc.halt
    /\ fds'   = trace[Len(trace)]
    /\ flast' = [op |-> op, arg |-> arg, ret |-> ret, pre |-> file, out |-> oc.out,
                 io |-> io, prev |-> flast.op, peak |-> Max(fds, Peak(trace))]
    /\ UNCHANGED <<data, size, offset, build, last, rt, frt, tm, mx>>

\* a call that opens and closes nothing
FApply(op, arg, ret, oc, io) == FApplyH(op, arg, ret, oc, io, <<fds>>)

FOpen ==
    /\ halt = "none"
    /\ \E path \in Paths : \E ok \in BOOLEAN :
          LET oc == FileInputStream_open(file, path, ok) IN
          FApplyH("open", path, IF oc.ret THEN 1 ELSE 0, oc, <<ok>>,
                  OpenHandles(file, path, ok, fds))

FRead ==
    /\ halt = "none"
    /\ \E n \in FileArgs : \E oc \in FileInputStream_read(file, n) :
          FApply("read", n, oc.ret, oc, <<>>)

FSeek ==
    /\ halt = "none"
    /\ \E position \in FileArgs : \E okSeek \in BOOLEAN : \E okTell \in BOOLEAN :
          LET oc == FileInputStream_seek(file, position, okSeek, okTell) IN
          /\ SeekSteps(file, position, okSeek, okTell)
          /\ FApply("seek", position, oc.ret, oc, <<okSeek, okTell>>)

FTell ==
    /\ halt = "none"
    /\ \E ok \in BOOLEAN :
          FApply("tell", 0, FileInputStream_tell(file, ok),
                 FOutcome(0, file, <<>>, "none"), <<ok>>)

FSize ==
    /\ halt = "none"
    /\ \E io \in [1..5 -> BOOLEAN] :
          LET oc == FileInputStream_size(file, io) IN
          /\ SizeSteps(file, io)
          /\ FApply("size", 0, oc.ret, oc, io)

FDrop ==
    /\ halt = "none"
    /\ FApplyH("drop", 0, 0, FOutcome(0, FileInputStream_drop(file), <<>>, "none"), <<>>,
               DropHandles(file, fds))

NextFile == FOpen \/ FRead \/ FSeek \/ FTell \/ FSize \/ FDrop

\* -------------------------------------- the file round-trip program
\* The module's FileInputStream example (`if stream.open(..) { read }`) on a
\* file of N known bytes: open, size(), then reads of any count in 1..N+1
\* with a tell() after each until N bytes were returned, then one more
\* read. The disk is healthy for seek and tell; a read may still fail or
\* be partial.
FileBytes(path) == [i \in 1..FileLen(path) |-> FileByteAt(path, i - 1)]
Healthy == [i \in 1..5 |-> TRUE]

FrtIdle == [pc |-> "idle", f |-> NoFile, path |-> 0, sz |-> 0, acc |-> <<>>, sum |-> 0,
            n |-> 0, ret |-> 0, before |-> 0, after |-> 0, extra |-> 0, extraN |-> 0]

FrtStep(r, h) ==
    /\ frt' = r /\ halt' = h
    /\ UNCHANGED <<data, size, offset, build, last, rt, file, flast, fds, tm, mx>>

FrtOpen ==
    /\ halt = "none" /\ frt.pc = "idle"
    /\ \E path \in Paths : \E ok \in BOOLEAN :
          LET oc == FileInputStream_open(frt.f, path, ok) IN
          FrtStep([frt EXCEPT !.pc = IF oc.ret THEN "opened" ELSE "failed",
                              !.f = oc.f, !.path = path], "none")

FrtSize ==
    /\ halt = "none" /\ frt.pc = "opened"
    /\ LET oc == FileInputStream_size(frt.f, Healthy) IN
       FrtStep([frt EXCEPT !.pc = "reading", !.f = oc.f, !.sz = oc.ret,
                           !.after = FileInputStream_tell(oc.f, TRUE)], "none")

FrtRead ==
    /\ halt = "none" /\ frt.pc = "reading" /\ frt.sum < FileLen(frt.path)
    /\ \E n \in 1..(FileLen(frt.path) + 1) : \E oc \in FileInputStream_read(frt.f, n) :
          FrtStep([frt EXCEPT !.f = oc.f, !.acc = frt.acc \o oc.out,
                              !.sum = frt.sum + oc.ret, !.n = n, !.ret = oc.ret,
                              !.before = FileInputStream_tell(frt.f, TRUE),
                              !.after = FileInputStream_tell(oc.f, TRUE)], oc.halt)

FrtReadMore ==
    /\ halt = "none" /\ frt.pc = "reading" /\ frt.sum >= FileLen(frt.path)
    /\ \E n \in 1..(FileLen(frt.path) + 1) : \E oc \in FileInputStream_read(frt.f, n) :
          FrtStep([frt EXCEPT !.pc = "done", !.f = oc.f, !.acc = frt.acc \o oc.out,
                              !.extraN = n, !.extra = oc.ret], oc.halt)

NextFileRoundTrip == FrtOpen \/ FrtSize \/ FrtRead \/ FrtReadMore

\* ------------------------------------------------------------------ Time
\* src/src/system/time.rs. A Time is its count of microseconds; the
\* operands stay in a range where no result overflows an i64.
TimeRange == (-MaxTime)..MaxTime

\* Time::new
Time_new(microseconds) == [microseconds |-> microseconds]
\* Time::microseconds
Time_microseconds(amount) == Time_new(amount)
\* Time::as_microseconds
Time_as_microseconds(t) == t.microseconds

\* impl Sub for Time
Time_sub(self, rhs) == Time_microseconds(-Time_as_microseconds(rhs))
\* impl SubAssign for Time
Time_sub_assign(self, rhs) == Time_sub(self, rhs)
\* impl Add for Time
Time_add(self, rhs) ==
    Time_microseconds(Time_as_microseconds(self) + Time_as_microseconds(rhs))
\* impl AddAssign for Time
Time_add_assign(self, rhs) == Time_add(self, rhs)

TmStep(op, a, b, r) ==
    /\ tm' = [op |-> op, a |-> a, b |-> b, r |-> r]
    /\ UNCHANGED <<data, size, offset, build, halt, last, rt, file, flast, fds, frt, mx>>

\* a - b
TimeSub ==
    /\ halt = "none"
    /\ \E a, b \in TimeRange :
       TmStep("sub", Time_new(a), Time_new(b), Time_sub(Time_new(a), Time_new(b)))

\* a -= b
TimeSubAssign ==
    /\ halt = "none"
    /\ \E a, b \in TimeRange :
       TmStep("sub_assign", Time_new(a), Time_new(b), Time_sub_assign(Time_new(a), Time_new(b)))

\* a + b
TimeAdd ==
    /\ halt = "none"
    /\ \E a, b \in TimeRange :
       TmStep("add", Time_new(a), Time_new(b), Time_add(Time_new(a), Time_new(b)))

\* a += b
TimeAddAssign ==
    /\ halt = "none"
    /\ \E a, b \in TimeRange :
       TmStep("add_assign", Time_new(a), Time_new(b), Time_add_assign(Time_new(a), Time_new(b)))

\* (a + b) - b
TimeAddSub ==
    /\ halt = "none"
    /\ \E a, b \in TimeRange :
       TmStep("add_sub", Time_new(a), Time_new(b),
              Time_sub(Time_add(Time_new(a), Time_new(b)), Time_new(b)))

NextTime == TimeSub \/ TimeSubAssign \/ TimeAdd \/ TimeAddAssign \/ TimeAddSub

\* ------------------------------------------------------------ Mutex, Lock
\* src/src/system/mutex.rs. The wrapped sfMutex is recursive: its owner
\* may lock it again, another thread waits until it is free.
Threads == 1..NumThreads

\* Mutex::default: free; no Lock value exists, no call was made
MutexNew == [owner |-> 0, depth |-> 0, locks |-> 0, unlocks |-> 0, clones |-> 0,
             live |-> [t \in Threads |-> 0]]

\* Mutex::lock by thread t: can return when the mutex is free or already t's
CanLock(m, t) == m.owner \in {0, t}
Mutex_lock(m, t) ==
    [m EXCEPT !.owner = t, !.depth = m.depth + 1, !.locks = m.locks + 1]

\* Mutex::unlock by thread t: the outcomes. By the owner it undoes one
\* lock; on a mutex t does not hold, the wrapped call either refuses and
\* changes nothing or (undefined) releases the holder's lock.
Mutex_unlock(m, t) ==
    LET undone == [m EXCEPT !.depth = m.depth - 1,
                            !.owner = IF m.depth = 1 THEN 0 ELSE m.owner,
                            !.unlocks = m.unlocks + 1]
        refused == [m EXCEPT !.unlocks = m.unlocks + 1]
    IN IF m.owner = t THEN {undone}
       ELSE IF m.owner = 0 THEN {refused}
       ELSE {refused, undone}

\* Lock::new
Lock_new(m, t) == [Mutex_lock(m, t) EXCEPT !.live[t] = m.live[t] + 1]

\* #[derive(Clone)] on Lock: copies the reference, calls nothing
Lock_clone(m, t) == [m EXCEPT !.live[t] = m.live[t] + 1, !.clones = m.clones + 1]

\* impl Drop for Lock
Lock_drop(m, t) == {[u EXCEPT !.live[t] = m.live[t] - 1] : u \in Mutex_unlock(m, t)}

MxStep(m) ==
    /\ mx' = m
    /\ UNCHANGED <<data, size, offset, build, halt, last, rt, file, flast, fds, frt, tm>>

LockNew ==
    /\ halt = "none"
    /\ \E t \in Threads :
          /\ mx.locks < MaxCalls
          /\ CanLock(mx, t)
          /\ MxStep(Lock_new(mx, t))

LockClone ==
    /\ halt = "none"
    /\ \E t \in Threads :
          /\ mx.clones < MaxCalls
          /\ mx.live[t] > 0
          /\ MxStep(Lock_clone(mx, t))

LockDrop ==
    /\ halt = "none"
    /\ \E t \in Threads :
          /\ mx.live[t] > 0
          /\ \E m \in Lock_drop(mx, t) : MxStep(m)

NextMutex == LockNew \/ LockClone \/ LockDrop

\* ------------------------------------------------------- specifications
Init ==
    /\ data = NULL /\ size = 0 /\ offset = 0
    /\ build \in {"debug", "release"}
    /\ halt = "none"
    /\ last = NoCall
    /\ rt = RtIdle
    /\ file = NoFile
    /\ flast = NoFCall
    /\ fds = 0
    /\ frt = FrtIdle
    /\ mx = MutexNew
    /\ tm = [op |-> "none", a |-> Time_new(0), b |-> Time_new(0), r |-> Time_new(0)]

Next == Open \/ Read \/ Seek \/ Tell \/ Size

\* a memory stream under any sequence of calls
Spec == Init /\ [][Next]_vars

\* the round-trip program
SpecRoundTrip == Init /\ [][NextRoundTrip]_vars

\* a file stream under any sequence of calls
SpecFile == Init /\ [][NextFile]_vars

\* the file round-trip program
SpecFileRoundTrip == Init /\ [][NextFileRoundTrip]_vars

\* arithmetic on Time values
SpecTime == Init /\ [][NextTime]_vars

\* threads creating, cloning and dropping Lock values on one Mutex
SpecMutex == Init /\ [][NextMutex]_vars

\* ================================================================ claims
Opened(s) == s.data # NULL
ReadCall == last.op = "read" /\ Opened(last.pre)
SeekCall == last.op = "seek" /\ Opened(last.pre)

\* C1: in every reachable state of the memory stream 0 <= offset <= size.
\* (The code lets seek store a negative position.)
C1_OffsetInvariant == 0 <= offset /\ offset <= size

\* C2: read on an opened stream copies only from indices in [0, L) of the
\* bound buffer and never advances the offset past L, for every i64
\* position sought to and every i64 requested count.
C2_ReadInBounds ==
    ReadCall =>
        /\ \A i \in DOMAIN last.src : 0 <= last.src[i] /\ last.src[i] < last.pre.size
        /\ offset <= size

\* C3: on an opened stream with 0 <= o <= s, read(n) with n >= 0 returns
\* c = min(n, s - o), delivers buffer[o .. o+c) in order and leaves the
\* offset at o + c.
C3_ReadResult ==
    (ReadCall /\ 0 <= last.pre.offset /\ last.pre.offset <= last.pre.size /\ last.arg >= 0) =>
        LET o == last.pre.offset
            c == Min(last.arg, last.pre.size - o)
        IN /\ halt = "none"
           /\ last.ret = c
           /\ last.out = [i \in 1..c |-> ByteAt(last.pre.data, o + i - 1)]
           /\ offset = o + c

\* C4: on an opened stream of size s, seek(p) sets the offset to p when
\* 0 <= p < s and to s when p >= s, and returns the new offset; a tell that
\* follows returns that offset, and after a seek to or past the end a read
\* that follows (of any count n >= 0 for which s + n is an i64) returns 0
\* bytes.
C4_SeekClamp ==
    (SeekCall /\ last.arg >= 0) =>
        /\ halt = "none"
        /\ offset = (IF last.arg < last.pre.size THEN last.arg ELSE last.pre.size)
        /\ last.ret = offset
        /\ size = last.pre.size /\ data = last.pre.data
        /\ MemoryInputStream_tell(Cur) = offset
        /\ last.arg >= size =>
              \A n \in 0..(I64_MAX - size) :
                 MemoryInputStream_read(Cur, n, build) = {Outcome(0, Cur, <<>>, <<>>, "none")}

\* C4 witness: a seek past the end of a non-empty buffer was clamped.
C4_Witness ==
    /\ SeekCall /\ last.pre.size = MaxLen /\ last.arg > last.pre.size
    /\ last.ret = MaxLen /\ offset = MaxLen

\* C5: on a stream opened on a non-null buffer, seek and read never return
\* -1 or any other negative value.
C5_NoSentinelWhenOpened ==
    ((ReadCall \/ SeekCall) /\ halt = "none") => last.ret >= 0

\* C6: on a never-opened stream read, seek and size return -1 and leave
\* offset, size and the buffer binding unchanged.
C6_UnopenedFails ==
    (last.op \in {"read", "seek", "size"} /\ ~Opened(last.pre)) =>
        /\ last.ret = -1
        /\ halt = "none"
        /\ last.out = <<>> /\ last.src = <<>>
        /\ Cur = last.pre
        /\ Cur = MemoryInputStream_default

\* C6 witness: seek with a position that an opened stream would accept was
\* called on the unopened stream.
C6_Witness ==
    /\ last.op = "seek" /\ ~Opened(last.pre) /\ last.arg = -1
    /\ data = NULL /\ offset = 0 /\ size = 0

\* C7: tell on a stream that is not readable returns -1 (memory backend:
\* the unopened stream).
C7_TellUnopened ==
    (last.op = "tell" /\ ~Opened(last.pre)) => last.ret = -1

\* C9: open leaves the stream opened with size() = length and tell() = 0,
\* a second open with the same arguments gives the same state, and every
\* later read returns bytes of the newly bound buffer only.
C9_OpenRebinds ==
    /\ last.op = "open" =>
          /\ Cur = Stream(last.buf, last.buf.len, 0)
          /\ MemoryInputStream_size(Cur) = last.buf.len
          /\ MemoryInputStream_tell(Cur) = 0
          /\ MemoryInputStream_open(Cur, last.buf) = Cur
    /\ ReadCall =>
          /\ Len(last.out) = Len(last.src)
          /\ \A i \in DOMAIN last.src :
                /\ InBounds(last.pre, last.src[i])
                /\ last.out[i] = ByteAt(last.pre.data, last.src[i])

\* C8: for every buffer B of length L and chunk size k in 1..L, read(k)
\* repeated from open until L bytes were returned yields exactly B, the
\* counts sum to L, the final tell() is L, and a further read (of any size
\* in 1..L) returns 0.
C8_RoundTrip ==
    LET L == rt.buf.len IN
    /\ halt = "none"
    /\ rt.pc = "reading" =>
          /\ rt.sum = Len(rt.acc) /\ rt.sum = rt.s.offset /\ rt.sum <= L
          /\ rt.sum >= Min(L, rt.calls * rt.k)
          /\ rt.acc = SubSeq(BufferBytes(rt.buf), 1, rt.sum)
    /\ rt.pc \in {"told", "done"} =>
          /\ rt.acc = BufferBytes(rt.buf)
          /\ rt.sum = L
          /\ rt.told = L
    /\ rt.pc = "done" => rt.extra = 0 /\ rt.s.offset = L

\* C8 witness: a round trip whose last chunk was a short read has finished.
C8_Witness ==
    /\ rt.pc = "done" /\ rt.buf.len = MaxLen /\ rt.k = MaxLen - 1 /\ rt.calls = 2
    /\ rt.acc = BufferBytes(rt.buf) /\ rt.extraN = rt.k

\* C10: on a FileInputStream that holds no handle read, seek, tell and
\* size return -1 and the stream still holds no handle.
C10_NoHandleFails ==
    (flast.op \in {"read", "seek", "tell", "size"} /\ ~flast.pre.open) =>
        /\ flast.ret = -1
        /\ file = NoFile
        /\ flast.out = <<>>
        /\ halt = "none"

\* C10 witness: read was called right after an open that failed.
C10_Witness ==
    /\ flast.op = "read" /\ flast.prev = "open" /\ ~flast.pre.open
    /\ flast.arg = 1 /\ flast.ret = -1

\* C11: open(path) returns true if and only if the stream holds a handle
\* to path afterwards; when it fails the stream holds no handle at all, even
\* if it held one before, so that read, seek, tell and size then return -1.
C11_OpenResult ==
    flast.op = "open" =>
        /\ (flast.ret = 1) <=> (file.open /\ file.path = flast.arg)
        /\ flast.ret \in {0, 1}
        /\ flast.ret = 1 => file = Handle(flast.arg, 0)
        /\ flast.ret = 0 =>
              /\ file = NoFile
              /\ \A n \in I64 : FileInputStream_read(file, n) = {FOutcome(-1, file, <<>>, "none")}
              /\ \A n \in I64 : \A a, b \in BOOLEAN :
                    FileInputStream_seek(file, n, a, b) = FOutcome(-1, file, <<>>, "none")
              /\ \A a \in BOOLEAN : FileInputStream_tell(file, a) = -1
              /\ \A io \in [1..5 -> BOOLEAN] :
                    FileInputStream_size(file, io) = FOutcome(-1, file, <<>>, "none")

\* C11 witness: an open failed on a stream that held a handle to another file.
C11_Witness ==
    /\ flast.op = "open" /\ flast.pre.open /\ flast.pre.path = 1
    /\ flast.arg = 2 /\ flast.ret = 0 /\ ~file.open

\* C12: a stream owns at most one open file handle at any time, also in
\* the middle of a re-open (the old handle is released before the new one is
\* acquired); every open handle is the one the stream holds; after the
\* stream is dropped none is open.
C12_NoHandleLeak ==
    /\ fds = (IF file.open THEN 1 ELSE 0)
    /\ flast.peak <= 1
    /\ flast.op = "drop" => fds = 0

\* C12 witness: a stream holding a handle was re-opened on another path.
C12_Witness ==
    /\ flast.op = "open" /\ flast.pre.open /\ flast.pre.path = 1
    /\ flast.arg = 2 /\ flast.ret = 1 /\ fds = 1 /\ flast.peak = 1

FSizeCall == flast.op = "size" /\ flast.pre.open

\* C13: on an opened stream over a file of N bytes with the cursor at any
\* K (K > N included), size(), its steps succeeding, returns N and leaves
\* the cursor at K: tell() returns K before and after the call.
C13_SizeKeepsCursor ==
    (FSizeCall /\ \A i \in 1..4 : flast.io[i]) =>
        /\ flast.ret = FileLen(flast.pre.path)
        /\ file = flast.pre
        /\ FileInputStream_tell(flast.pre, TRUE) = flast.pre.pos
        /\ FileInputStream_tell(file, TRUE) = flast.pre.pos

\* C13 witness: size was called with the cursor beyond the end of the file.
C13_Witness ==
    /\ FSizeCall /\ \A i \in 1..5 : flast.io[i]
    /\ flast.pre.pos > FileLen(flast.pre.path)
    /\ flast.ret = FileLen(flast.pre.path) /\ file.pos = flast.pre.pos

\* C16: on a stream holding a handle, size() returns -1 when any of its
\* steps fails: the first tell, the seek to the end, the tell that captures
\* the end, or the seek that restores the position.
C16_SizeReportsFailure ==
    (FSizeCall /\ \E i \in 1..4 : ~flast.io[i]) => flast.ret = -1

C14_FileRoundTrip ==
    LET N == FileLen(frt.path) IN
    /\ halt = "none"
    /\ frt.pc \in {"reading", "done"} =>
          /\ frt.sz = N
          /\ frt.sum <= N
          /\ frt.acc = SubSeq(FileBytes(frt.path), 1, frt.sum)
          /\ 0 <= frt.ret /\ frt.ret <= frt.n
          /\ frt.after = frt.before + frt.ret
          /\ frt.after = frt.sum
    /\ frt.pc = "done" =>
          /\ frt.acc = FileBytes(frt.path)
          /\ frt.sum = N
          /\ frt.extra = 0

\* C14 witness: the longest file was read back in several reads, the last
\* of them asking for more than was left.
C14_Witness ==
    /\ frt.pc = "done" /\ frt.path = NumFiles /\ frt.acc = FileBytes(NumFiles)
    /\ frt.ret = 1 /\ frt.n > 1 /\ frt.before = FileLen(NumFiles) - 1

\* C15: for all Time values a and b, (a - b).as_microseconds() equals
\* a.as_microseconds() - b.as_microseconds(), the same for a -= b, and
\* (a + b) - b equals a.
C15_SubIsMicrosecondSub ==
    /\ tm.op \in {"sub", "sub_assign"} =>
          Time_as_microseconds(tm.r) = Time_as_microseconds(tm.a) - Time_as_microseconds(tm.b)
    /\ tm.op = "add_sub" => Time_as_microseconds(tm.r) = Time_as_microseconds(tm.a)

\* C18: every Lock value stands for exactly one mutex.lock() and causes
\* exactly one mutex.unlock(): the unlock calls never outnumber the lock
\* calls, and a thread with a live Lock holds the mutex.
C18_LockBalanced ==
    /\ mx.unlocks <= mx.locks
    /\ \A t \in Threads : mx.live[t] > 0 => mx.owner = t

====
